---------------------------- MODULE Spec2Model ----------------------------
(***************************************************************************)
(* Model of src/app.py: the save_to_file tool and the file system it       *)
(* writes to, two concurrent save_to_file calls, and main() driving the    *)
(* AgentExecutor built by init_agent.                                      *)
(*                                                                         *)
(* Strings are sequences of one-character tokens.  Paths are interpreted   *)
(* as on a POSIX host (os.path is posixpath).                              *)
(***************************************************************************)
EXTENDS Integers, Sequences, FiniteSets, TLC

VARIABLES
    files,        \* the file system: resolved path |-> content of a regular file
    ncalls,       \* number of save_to_file calls made so far (Spec)
    last,         \* the save_to_file call that has just returned, if any (Spec)
    saved,        \* the file the latest call wrote completely, if it did (Spec)
    procs,        \* the two in-flight save_to_file calls (SpecRace)
    groq_api_key, \* value of the sidebar text input (SpecAgent)
    adapter,      \* the language model's behaviour for this run (SpecAgent)
    mainPc,       \* position of main() (SpecAgent)
    agentPc,      \* state of the AgentExecutor loop (SpecAgent)
    iterations,   \* AgentExecutor's iteration counter
    intermediate_steps, \* the scratchpad: (action, observation) pairs
    next_step_output,   \* pairs produced by the step in progress
    pending,      \* tool calls of the current decision not yet performed
    decisions,    \* history: every output the model produced in this run
    invocations,  \* history: every call a registered tool was run with
    exception,    \* the exception that ended agent_executor.invoke, if one did
    output,       \* response["output"] once the executor has returned
    shown         \* history: what main() reported through st.info / st.error

vars == <<files, ncalls, last, saved, procs, groq_api_key, adapter, mainPc, agentPc,
          iterations, intermediate_steps, next_step_output, pending,
          decisions, invocations, exception, output, shown>>

saveVars == <<files, ncalls, last, saved>>
raceVars == <<procs>>
agentVars == <<groq_api_key, adapter, mainPc, agentPc, iterations,
               intermediate_steps, next_step_output, pending, decisions,
               invocations, exception, output, shown>>

(***************************************************************************)
(* Bounds of the model.                                                    *)
(***************************************************************************)
MaxCalls == 2
MaxScript == 2

(***************************************************************************)
(* Strings and inputs.                                                     *)
(***************************************************************************)
SEP == "/"
DOT == "."
NUL == "NUL"

\* The filenames the tool is called with: "", ".", "/", "..", "./", "../",
\* "a/", "a/..", "a.txt", "../a.txt", "/etc/passwd", "../../etc/passwd" and
\* "a<NUL>txt".  A name such as "etc" is one token.
Filenames ==
    { <<>>, <<DOT>>, <<SEP>>, <<DOT, DOT>>, <<DOT, SEP>>, <<DOT, DOT, SEP>>,
      <<"a", SEP>>, <<"a", SEP, DOT, DOT>>,
      <<"a", DOT, "txt">>, <<DOT, DOT, SEP, "a", DOT, "txt">>,
      <<SEP, "etc", SEP, "passwd">>,
      <<DOT, DOT, SEP, DOT, DOT, SEP, "etc", SEP, "passwd">>,
      <<"a", NUL, "txt">> }
Contents == {<<>>, <<"x">>, <<"y">>, <<"x", "y">>, <<"y", "y">>}

DOWNLOAD_DIR == <<"downloads">>
DefaultName == <<"resultado_agente.txt">>

\* The process's working directory and the directories that exist.  The
\* output directory is created at import time (os.makedirs, exist_ok=True).
Cwd == << <<"cwd">> >>
DownloadsPath == Cwd \o <<DOWNLOAD_DIR>>
Dirs == {<<>>, Cwd, DownloadsPath}
\* A file of the application that lives beside the output directory.
OutsideFile == Cwd \o << <<"a", DOT, "txt">> >>

IsPrefix(p, q) == Len(p) <= Len(q) /\ SubSeq(q, 1, Len(p)) = p

(***************************************************************************)
(* os.path.basename, os.path.join and the kernel's path walk.              *)
(***************************************************************************)
SepPositions(p) == {i \in 1..Len(p) : p[i] = SEP}
LastSep(p) == IF SepPositions(p) = {} THEN 0
              ELSE CHOOSE i \in SepPositions(p) : \A j \in SepPositions(p) : j <= i

basename(p) == SubSeq(p, LastSep(p) + 1, Len(p))

join(a, b) ==
    IF b # <<>> /\ b[1] = SEP THEN b
    ELSE IF a = <<>> \/ a[Len(a)] = SEP THEN a \o b
    ELSE a \o <<SEP>> \o b

\* The components of a path: the maximal runs of characters between separators.
RECURSIVE Split(_)
Split(p) ==
    IF p = <<>> THEN <<>>
    ELSE IF SepPositions(p) = {} THEN <<p>>
    ELSE LET i == CHOOSE k \in SepPositions(p) : \A j \in SepPositions(p) : k <= j
             head == SubSeq(p, 1, i - 1)
             rest == Split(SubSeq(p, i + 1, Len(p)))
         IN  IF head = <<>> THEN rest ELSE <<head>> \o rest

\* The kernel's walk over the components of a path: "." stays, ".." goes to
\* the parent (the root is its own parent), a name descends.  Every component
\* but the last must be an existing directory, otherwise the walk fails.
NoEnt == << <<"ENOENT">> >>
RECURSIVE Walk(_, _)
Walk(at, comps) ==
    IF comps = <<>> THEN at
    ELSE IF at \notin Dirs THEN NoEnt
    ELSE LET c == Head(comps)
             next == IF c = <<DOT>> THEN at
                     ELSE IF c = <<DOT, DOT>>
                          THEN (IF at = <<>> THEN at ELSE SubSeq(at, 1, Len(at) - 1))
                          ELSE Append(at, c)
         IN  Walk(next, Tail(comps))

\* Where the kernel ends up for a path given to open(): absolute paths start
\* at the root, relative ones at the working directory.
Resolve(p) ==
    Walk(IF p # <<>> /\ p[1] = SEP THEN <<>> ELSE Cwd, Split(p))

HasNul(p) == \E i \in 1..Len(p) : p[i] = NUL

(***************************************************************************)
(* open(file_path, "w", encoding="utf-8") and the write that follows.      *)
(***************************************************************************)
ExceptionTypes == {"ValueError", "FileNotFoundError", "IsADirectoryError",
                   "PermissionError", "OSError"}
\* What the environment does to a call: nothing, refuse the open
\* (permission denied), or fail the write (disk full, I/O error).
Faults == {"none", "open", "write"}

Put(fs, t, c) == [p \in DOMAIN fs \cup {t} |-> IF p = t THEN c ELSE fs[p]]

\* Mode "w" is O_WRONLY | O_CREAT | O_TRUNC: an existing file is emptied.
OpenedContentKeepsOld(fs, t) == IF t \in DOMAIN fs THEN fs[t] ELSE <<>>
OpenedContent(fs, t) == <<>>

\* The file's content after writing data at offset off.
WriteAt(old, off, data) ==
    SubSeq(old, 1, off) \o data
        \o SubSeq(old, off + Len(data) + 1, Len(old))

OpenW(fs, path, fault) ==
    LET t == Resolve(path)
    IN  IF HasNul(path)
        THEN [exc |-> "ValueError", target |-> NoEnt, fs |-> fs]
        ELSE IF path = <<>> \/ t = NoEnt
        THEN [exc |-> "FileNotFoundError", target |-> NoEnt, fs |-> fs]
        ELSE IF t \in Dirs \/ path[Len(path)] = SEP
        THEN [exc |-> "IsADirectoryError", target |-> t, fs |-> fs]
        ELSE IF fault = "open"
        THEN [exc |-> "PermissionError", target |-> t, fs |-> fs]
        ELSE [exc |-> "none", target |-> t,
              fs |-> Put(fs, t, OpenedContent(fs, t))]

(***************************************************************************)
(* save_to_file (src/app.py lines 25-46).                                  *)
(***************************************************************************)
SafeFilename(filename) ==
    IF basename(filename) = <<>> THEN DefaultName ELSE basename(filename)

FilePath(filename) == join(DOWNLOAD_DIR, SafeFilename(filename))

\* The body of the try block; k is the number of characters that reach the
\* file before a failing write gives up.
SaveBody(fs, content, filename, fault, k) ==
    LET o == OpenW(fs, FilePath(filename), fault)
    IN  IF o.exc # "none"
        THEN [exc |-> o.exc, fs |-> o.fs, target |-> o.target, wrote |-> FALSE]
        ELSE IF fault = "write"
        THEN [exc |-> "OSError", target |-> o.target, wrote |-> FALSE,
              fs |-> Put(o.fs, o.target,
                         WriteAt(o.fs[o.target], 0, SubSeq(content, 1, k)))]
        ELSE [exc |-> "none", target |-> o.target, wrote |-> TRUE,
              fs |-> Put(o.fs, o.target, WriteAt(o.fs[o.target], 0, content))]

\* except Exception: every exception type the body can raise is caught.
CaughtOnlyOSError(exc) == exc \in ExceptionTypes \ {"ValueError"}
Caught(exc) == exc \in ExceptionTypes

NoResult == <<"raised", <<>>>>
SaveResult(body, filename) ==
    IF body.exc = "none" THEN <<"Exito", SafeFilename(filename)>>
    ELSE IF Caught(body.exc) THEN <<"Error", <<body.exc>>>>
    ELSE NoResult

NoFile == <<"absent">>
NoCall == [filename |-> <<>>, content |-> <<>>, fault |-> "none",
           target |-> NoEnt, result |-> NoResult, raised |-> FALSE,
           wrote |-> FALSE, before |-> NoFile, prevOk |-> FALSE]

save_to_file(content, filename, fault, k) ==
    LET body == SaveBody(files, content, filename, fault, k)
        res == SaveResult(body, filename)
    IN  /\ files' = body.fs
        /\ last' = [filename |-> filename, content |-> content,
                    fault |-> fault,
                    target |-> body.target, result |-> res,
                    raised |-> (res = NoResult), wrote |-> body.wrote,
                    before |-> IF body.target \in DOMAIN files
                               THEN files[body.target] ELSE NoFile,
                    prevOk |-> (saved = body.target)]
        /\ saved' = IF body.wrote THEN body.target ELSE NoEnt

InitFiles == [p \in {OutsideFile} |-> <<"s">>]

\* The parts of the state a specification does not use stay as they start.
SaveIdle ==
    /\ ncalls = 0
    /\ last = NoCall
    /\ saved = NoEnt

RaceIdle == procs = <<>>

AgentIdle ==
    /\ groq_api_key = <<>>
    /\ adapter = <<>>
    /\ mainPc = "off"
    /\ agentPc = "off"
    /\ iterations = 0
    /\ intermediate_steps = <<>>
    /\ next_step_output = <<>>
    /\ pending = <<>>
    /\ decisions = <<>>
    /\ invocations = <<>>
    /\ exception = "none"
    /\ output = <<>>
    /\ shown = <<>>

Init ==
    /\ files = InitFiles
    /\ SaveIdle
    /\ RaceIdle
    /\ AgentIdle

\* One call of the tool, with any arguments and any behaviour of the disk.
SaveCall ==
    /\ ncalls < MaxCalls
    /\ last = NoCall
    /\ \E content \in Contents, filename \in Filenames, fault \in Faults :
         \E k \in 0..Len(content) :
            /\ fault = "write" => k < Len(content)
            /\ fault # "write" => k = 0
            /\ save_to_file(content, filename, fault, k)
    /\ ncalls' = ncalls + 1
    /\ UNCHANGED raceVars
    /\ UNCHANGED agentVars

\* The caller takes the returned string; the call is over.
SaveReturn ==
    /\ last # NoCall
    /\ last' = NoCall
    /\ UNCHANGED <<files, ncalls, saved>>
    /\ UNCHANGED raceVars
    /\ UNCHANGED agentVars

Next == SaveCall \/ SaveReturn

Spec == Init /\ [][Next]_vars

(***************************************************************************)
(* Claims about save_to_file, checked under Spec.                          *)
(***************************************************************************)
Returned == last # NoCall
Succeeded == last.result = <<"Exito", SafeFilename(last.filename)>>

\* C1 (as claimed): whatever filename save_to_file is given, the path it
\* passes to open() resolves to the output directory or a location below it.
C1_OpenedPathInsideDownloads ==
    Returned => IsPrefix(DownloadsPath, Resolve(FilePath(last.filename)))

\* Every file outside the output directory is as it was at start.
OutsideUntouched ==
    \A p \in DOMAIN files \cup DOMAIN InitFiles :
        ~(IsPrefix(DownloadsPath, p) /\ p # DownloadsPath)
            => p \in DOMAIN files /\ p \in DOMAIN InitFiles /\ files[p] = InitFiles[p]

\* A filename made of separators and of "." and ".." components only.
PathOnly(filename) ==
    /\ ~HasNul(filename)
    /\ \A i \in 1..Len(Split(filename)) :
          Split(filename)[i] \in {<<DOT>>, <<DOT, DOT>>}

\* C2 (as claimed): an empty or path-only filename, on a disk that does not
\* fail, is written to the default filename and the call reports success.
C2_PathOnlyNameWritesDefault ==
    (Returned /\ PathOnly(last.filename) /\ last.fault = "none")
        => /\ last.result = <<"Exito", DefaultName>>
           /\ last.target = Append(DownloadsPath, DefaultName)
           /\ last.target \in DOMAIN files
           /\ files[last.target] = last.content

\* C5: save_to_file never raises; it returns the success message naming the
\* sanitized filename exactly when the write completed, and an error
\* message otherwise.
C5_NeverRaisesAlwaysString ==
    Returned =>
        /\ ~last.raised
        /\ last.result[1] \in {"Exito", "Error"}
        /\ last.wrote <=> Succeeded
        /\ ~last.wrote <=> (last.result[1] = "Error")

C5_Witness ==
    /\ Returned
    /\ HasNul(last.filename) \/ last.fault = "write"
    /\ last.result[1] = "Error"
    /\ ~last.wrote

\* C7: when a successful save to a file is followed by another successful
\* save to the same sanitized filename, the file holds exactly the content
\* of the second save.
C7_SecondSaveOverwrites ==
    (Returned /\ last.prevOk /\ Succeeded)
        => /\ last.target \in DOMAIN files
           /\ files[last.target] = last.content

C7_Witness ==
    /\ Returned
    /\ last.prevOk
    /\ Succeeded
    /\ last.before # NoFile
    /\ Len(last.before) > Len(last.content)
    /\ files[last.target] = last.content

(***************************************************************************)
(* Two concurrent save_to_file calls (two sessions of the application),    *)
(* each taken through its system calls: open, the buffered f.write, and    *)
(* the flush at close, which writes at the descriptor's own offset.        *)
(***************************************************************************)
Procs == {1, 2}

InitRace ==
    /\ files = InitFiles
    /\ SaveIdle
    /\ AgentIdle
    /\ procs \in [Procs -> [pc : {"start"}, content : Contents,
                            filename : Filenames, target : {NoEnt},
                            buffer : {<<>>}, result : {NoResult}]]

\* Lines 35-41: sanitize, join, open.  A failing open goes to the handler.
RaceOpen(p) ==
    LET me == procs[p]
        o == OpenW(files, FilePath(me.filename), "none")
    IN  /\ me.pc = "start"
        /\ files' = o.fs
        /\ procs' = [procs EXCEPT ![p] =
             IF o.exc = "none"
             THEN [me EXCEPT !.pc = "opened", !.target = o.target]
             ELSE [me EXCEPT !.pc = "returned",
                             !.result = SaveResult([exc |-> o.exc], me.filename)]]
        /\ UNCHANGED <<ncalls, last, saved>>
        /\ UNCHANGED agentVars

\* Line 42: f.write(content) fills the file object's buffer.
RaceWrite(p) ==
    LET me == procs[p]
    IN  /\ me.pc = "opened"
        /\ procs' = [procs EXCEPT ![p] =
                        [me EXCEPT !.pc = "written", !.buffer = me.content]]
        /\ UNCHANGED saveVars
        /\ UNCHANGED agentVars

\* Leaving the with block closes the file: the buffer is written at the
\* descriptor's offset, which is 0 since the open; then line 44 returns.
RaceClose(p) ==
    LET me == procs[p]
    IN  /\ me.pc = "written"
        /\ files' = Put(files, me.target,
                        WriteAt(files[me.target], 0, me.buffer))
        /\ procs' = [procs EXCEPT ![p] =
             [me EXCEPT !.pc = "returned",
                        !.result = SaveResult([exc |-> "none"], me.filename)]]
        /\ UNCHANGED <<ncalls, last, saved>>
        /\ UNCHANGED agentVars

NextRace == \E p \in Procs : RaceOpen(p) \/ RaceWrite(p) \/ RaceClose(p)

SpecRace == InitRace /\ [][NextRace]_vars

BothSavedSameFile ==
    /\ procs # <<>>
    /\ \A p \in Procs : procs[p].pc = "returned" /\ procs[p].result[1] = "Exito"
    /\ procs[1].target = procs[2].target

\* C10 (as claimed): once two concurrent saves to the same sanitized
\* filename have both returned, the file holds exactly the content of one
\* of the two calls.
C10_LastWriteWins ==
    BothSavedSameFile =>
        files[procs[1].target] \in {procs[1].content, procs[2].content}

(***************************************************************************)
(* main() and the AgentExecutor that init_agent builds (lines 56-80,       *)
(* 84-143).  The executor is constructed with handle_parsing_errors=True   *)
(* and otherwise with the library's defaults: max_iterations is 15, no     *)
(* time limit, early stopping by "force", and tools that do not handle     *)
(* their own errors.                                                       *)
(***************************************************************************)
max_iterations == 15
handle_parsing_errors_off == FALSE
handle_parsing_errors == TRUE

Fallback == <<"Agent stopped due to max iterations.">>
NoOutput == <<>>

\* The tools the executor is given (get_tools), by name.
WikiName == "wikipedia"
SaveName == "save_to_file"
ToolNames == {WikiName, SaveName}

ToolCall(tool, content, filename) ==
    [tool |-> tool, content |-> content, filename |-> filename]
WikiCall == ToolCall(WikiName, <<"Turing">>, <<>>)
SaveCallOk == ToolCall(SaveName, <<"x">>, <<"a", DOT, "txt">>)
SaveCallDir == ToolCall(SaveName, <<"x">>, <<DOT, DOT>>)
UnknownCall == ToolCall("calculator", <<>>, <<>>)
ExceptionAction == ToolCall("_Exception", <<>>, <<>>)

\* What one call of the language model can come to: a final answer, one or
\* more tool calls, output the parser rejects, or a failed request.
Finish(answer) == [kind |-> "finish", calls |-> <<>>, answer |-> answer]
Invoke(calls) == [kind |-> "invoke", calls |-> calls, answer |-> <<>>]
Unparsable == [kind |-> "unparsable", calls |-> <<>>, answer |-> <<>>]
LlmError == [kind |-> "llm_error", calls |-> <<>>, answer |-> <<>>]

Continuing == {Invoke(<<WikiCall>>), Invoke(<<SaveCallOk>>),
               Invoke(<<SaveCallDir>>), Invoke(<<UnknownCall>>),
               Invoke(<<WikiCall, SaveCallOk>>), Unparsable}
Ending == {Finish(<<"X">>), LlmError}

RECURSIVE ScriptsUpTo(_)
ScriptsUpTo(n) ==
    IF n = 0 THEN {<<>>}
    ELSE LET shorter == ScriptsUpTo(n - 1)
         IN  shorter \cup {Append(s, d) : s \in shorter, d \in Continuing}

\* A model behaviour: its first outputs, then one output repeated for ever.
Adapters == [prefix : ScriptsUpTo(MaxScript), tail : Continuing \cup Ending]
RejectingAdapter == [prefix |-> <<>>, tail |-> LlmError]

Keys == {<<>>, <<"bad">>, <<"good">>}

\* The model's n-th output.  A request made with a credential the service
\* does not accept fails.
Decide(n) ==
    IF groq_api_key # <<"good">> THEN LlmError
    ELSE IF n <= Len(adapter.prefix) THEN adapter.prefix[n]
    ELSE adapter.tail

InitAgent ==
    /\ files = InitFiles
    /\ SaveIdle
    /\ RaceIdle
    /\ groq_api_key \in Keys
    /\ adapter \in Adapters
    /\ groq_api_key # <<"good">> => adapter = RejectingAdapter
    /\ mainPc = "start"
    /\ agentPc = "off"
    /\ iterations = 0
    /\ intermediate_steps = <<>>
    /\ next_step_output = <<>>
    /\ pending = <<>>
    /\ decisions = <<>>
    /\ invocations = <<>>
    /\ exception = "none"
    /\ output = NoOutput
    /\ shown = <<>>

loopVars == <<agentPc, iterations, intermediate_steps, next_step_output,
              pending, decisions, invocations, exception, output>>

\* Lines 98-101: without a key main() asks for one and returns.
MainNoKey ==
    /\ mainPc = "start"
    /\ groq_api_key = <<>>
    /\ shown' = Append(shown, "info_no_key")
    /\ mainPc' = "returned"
    /\ UNCHANGED <<groq_api_key, adapter, files>>
    /\ UNCHANGED loopVars
    /\ UNCHANGED <<ncalls, last, saved>>
    /\ UNCHANGED raceVars

\* Lines 104-105 and 56-80: init_agent builds the client, the tools, the
\* prompt and the executor.  Nothing here sends the key to the service.
MainInitAgent ==
    /\ mainPc = "start"
    /\ groq_api_key # <<>>
    /\ mainPc' = "chat"
    /\ UNCHANGED <<groq_api_key, adapter, files, shown>>
    /\ UNCHANGED loopVars
    /\ UNCHANGED <<ncalls, last, saved>>
    /\ UNCHANGED raceVars

\* Lines 106-108: a constructor raised (a missing package, a rejected
\* argument); main() reports it and returns.
MainInitFails ==
    /\ mainPc = "start"
    /\ groq_api_key # <<>>
    /\ shown' = Append(shown, "error_init")
    /\ mainPc' = "returned"
    /\ UNCHANGED <<groq_api_key, adapter, files>>
    /\ UNCHANGED loopVars
    /\ UNCHANGED <<ncalls, last, saved>>
    /\ UNCHANGED raceVars

\* Line 119 with nothing typed: this run of the script ends.
MainNoPrompt ==
    /\ mainPc = "chat"
    /\ mainPc' = "returned"
    /\ UNCHANGED <<groq_api_key, adapter, files, shown>>
    /\ UNCHANGED loopVars
    /\ UNCHANGED <<ncalls, last, saved>>
    /\ UNCHANGED raceVars

\* Lines 119-129: a prompt was typed; agent_executor.invoke starts the loop
\* with no intermediate steps.
MainInvoke ==
    /\ mainPc = "chat"
    /\ mainPc' = "invoking"
    /\ agentPc' = "Deciding"
    /\ iterations' = 0
    /\ intermediate_steps' = <<>>
    /\ UNCHANGED <<next_step_output, pending, decisions, invocations,
                   exception, output>>
    /\ UNCHANGED <<groq_api_key, adapter, files, shown>>
    /\ UNCHANGED <<ncalls, last, saved>>
    /\ UNCHANGED raceVars

ShouldContinueOffByOne(n) == n <= max_iterations
ShouldContinue(n) == n < max_iterations

ExtendStepsReplaces(steps, out) == out
ExtendSteps(steps, out) == steps \o out

ParseErrorObservation == <<"Invalid or incomplete response", <<>>>>
InvalidToolObservation == <<"is not a valid tool, try one of", <<>>>>
WikiObservation == <<"Page", <<>>>>
Pair(action, observation) == [action |-> action, observation |-> observation]

\* One pass of the loop up to the model's answer: plan, then finish, or
\* queue the tool calls, or turn a parser error into a step.
AgentDecide ==
    LET d == Decide(Len(decisions) + 1)
    IN  /\ agentPc = "Deciding"
        /\ ShouldContinue(iterations)
        /\ decisions' = Append(decisions, d)
        /\ CASE d.kind = "llm_error" ->
                  /\ agentPc' = "Raised"
                  /\ exception' = "model"
                  /\ UNCHANGED <<iterations, intermediate_steps,
                                 next_step_output, pending, output>>
             [] d.kind = "unparsable" /\ handle_parsing_errors ->
                  /\ intermediate_steps' = ExtendSteps(intermediate_steps,
                        <<Pair(ExceptionAction, ParseErrorObservation)>>)
                  /\ iterations' = iterations + 1
                  /\ UNCHANGED <<agentPc, exception, next_step_output,
                                 pending, output>>
             [] d.kind = "unparsable" /\ ~handle_parsing_errors ->
                  /\ agentPc' = "Raised"
                  /\ exception' = "parser"
                  /\ UNCHANGED <<iterations, intermediate_steps,
                                 next_step_output, pending, output>>
             [] d.kind = "finish" ->
                  /\ agentPc' = "Finished"
                  /\ output' = d.answer
                  /\ UNCHANGED <<iterations, intermediate_steps, exception,
                                 next_step_output, pending>>
             [] d.kind = "invoke" ->
                  /\ agentPc' = "Invoking"
                  /\ pending' = d.calls
                  /\ next_step_output' = <<>>
                  /\ UNCHANGED <<iterations, intermediate_steps, exception,
                                 output>>
        /\ UNCHANGED <<invocations, files>>
        /\ UNCHANGED <<groq_api_key, adapter, mainPc, shown>>
        /\ UNCHANGED <<ncalls, last, saved>>
        /\ UNCHANGED raceVars

\* What running a call gives back, and what it does to the disk.
ToolRun(call) ==
    IF call.tool \notin ToolNames
    THEN [observation |-> InvalidToolObservation, fs |-> files, ran |-> FALSE]
    ELSE IF call.tool = WikiName
    THEN [observation |-> WikiObservation, fs |-> files, ran |-> TRUE]
    ELSE LET body == SaveBody(files, call.content, call.filename, "none", 0)
         IN  [observation |-> SaveResult(body, call.filename),
              fs |-> body.fs, ran |-> TRUE]

\* The next queued call is performed and its observation kept; after the
\* last one the step's pairs join the scratchpad and the pass is counted.
AgentInvoke ==
    LET call == Head(pending)
        r == ToolRun(call)
        out == Append(next_step_output, Pair(call, r.observation))
    IN  /\ agentPc = "Invoking"
        /\ pending # <<>>
        /\ files' = r.fs
        /\ invocations' = IF r.ran THEN Append(invocations, call)
                          ELSE invocations
        /\ pending' = Tail(pending)
        /\ IF Tail(pending) = <<>>
           THEN /\ intermediate_steps' = ExtendSteps(intermediate_steps, out)
                /\ next_step_output' = <<>>
                /\ iterations' = iterations + 1
                /\ agentPc' = "Deciding"
           ELSE /\ next_step_output' = out
                /\ UNCHANGED <<intermediate_steps, iterations, agentPc>>
        /\ UNCHANGED <<decisions, exception, output>>
        /\ UNCHANGED <<groq_api_key, adapter, mainPc, shown>>
        /\ UNCHANGED <<ncalls, last, saved>>
        /\ UNCHANGED raceVars

\* The Wikipedia search cannot reach the network: the request's exception
\* leaves the tool and the executor.
AgentToolRaises ==
    /\ agentPc = "Invoking"
    /\ pending # <<>>
    /\ Head(pending).tool = WikiName
    /\ invocations' = Append(invocations, Head(pending))
    /\ agentPc' = "Raised"
    /\ exception' = "tool"
    /\ UNCHANGED <<iterations, intermediate_steps, next_step_output, pending,
                   decisions, output>>
    /\ UNCHANGED <<groq_api_key, adapter, mainPc, shown, files>>
    /\ UNCHANGED <<ncalls, last, saved>>
    /\ UNCHANGED raceVars

\* The iteration limit is reached: the executor returns the stopped response.
AgentStop ==
    /\ agentPc = "Deciding"
    /\ ~ShouldContinue(iterations)
    /\ agentPc' = "Aborted"
    /\ output' = Fallback
    /\ UNCHANGED <<iterations, intermediate_steps, next_step_output, pending,
                   decisions, invocations, exception>>
    /\ UNCHANGED <<groq_api_key, adapter, mainPc, shown, files>>
    /\ UNCHANGED <<ncalls, last, saved>>
    /\ UNCHANGED raceVars

\* Lines 130-133: the executor returned; its output is displayed.
MainShowAnswer ==
    /\ mainPc = "invoking"
    /\ agentPc \in {"Finished", "Aborted"}
    /\ shown' = Append(shown, "answer")
    /\ mainPc' = "returned"
    /\ UNCHANGED <<groq_api_key, adapter, files>>
    /\ UNCHANGED loopVars
    /\ UNCHANGED <<ncalls, last, saved>>
    /\ UNCHANGED raceVars

\* Lines 142-143: invoke raised; the error is displayed.
MainShowError ==
    /\ mainPc = "invoking"
    /\ agentPc = "Raised"
    /\ shown' = Append(shown, "error_exec")
    /\ mainPc' = "returned"
    /\ UNCHANGED <<groq_api_key, adapter, files>>
    /\ UNCHANGED loopVars
    /\ UNCHANGED <<ncalls, last, saved>>
    /\ UNCHANGED raceVars

NextAgent ==
    \/ MainNoKey
    \/ MainInitAgent
    \/ MainInitFails
    \/ MainNoPrompt
    \/ MainInvoke
    \/ AgentDecide
    \/ AgentInvoke
    \/ AgentToolRaises
    \/ AgentStop
    \/ MainShowAnswer
    \/ MainShowError

SpecAgent == InitAgent /\ [][NextAgent]_vars

(***************************************************************************)
(* Claims about the agent loop and main().                                 *)
(***************************************************************************)
LoopEnded == agentPc \in {"Finished", "Aborted", "Raised"}

\* The most tool calls one decision carries.
MostCalls == CHOOSE n \in {Len(d.calls) : d \in Continuing} :
                 \A d \in Continuing : Len(d.calls) <= n

\* How far the loop is from its end: every pass still allowed counts for
\* more than the steps one pass can take.
LoopDistance ==
    IF LoopEnded THEN 0
    ELSE (max_iterations - iterations) * (MostCalls + 1)
           + (IF agentPc = "Invoking" THEN Len(pending) ELSE MostCalls + 1)

\* How far main() is from returning.
Distance ==
    CASE mainPc = "returned" -> 0
      [] mainPc = "invoking" -> 1 + LoopDistance
      [] mainPc = "chat" -> 3 + (max_iterations + 1) * (MostCalls + 1)
      [] mainPc = "start" -> 4 + (max_iterations + 1) * (MostCalls + 1)

\* Some step can be taken: main() is at a statement of its own, or the loop
\* is deciding, has a tool call to perform, or has ended.
CanStep ==
    \/ mainPc \in {"start", "chat"}
    \/ /\ mainPc = "invoking"
       /\ \/ agentPc = "Deciding"
          \/ agentPc = "Invoking" /\ pending # <<>>
          \/ LoopEnded

\* C3: the loop always terminates, whatever the model answers: the number
\* of passes (and of model calls) never exceeds the iteration cap; every
\* step brings the run strictly closer to its end and a run that has not
\* returned can take a step, so it neither hangs nor goes on for ever; a
\* loop that has used the cap up stops in Aborted, and Aborted returns the
\* fallback answer without raising.
C3_LoopTerminatesWithinCap ==
    /\ [](/\ iterations \in 0..max_iterations
          /\ Len(decisions) <= max_iterations
          /\ Distance \in Nat
          /\ mainPc # "returned" => CanStep
          /\ agentPc = "Aborted" => output = Fallback /\ exception = "none")
    /\ [][/\ Distance' < Distance
          /\ (agentPc = "Deciding" /\ iterations = max_iterations
                /\ agentPc' # agentPc) => agentPc' = "Aborted"]_vars

C3_Witness ==
    /\ agentPc = "Aborted"
    /\ output = Fallback
    /\ iterations = max_iterations
    /\ \A i \in 1..Len(decisions) : decisions[i].kind # "finish"
    /\ mainPc = "returned"
    /\ shown = <<"answer">>

\* C4 (as claimed): with a missing or invalid credential the executor's
\* invoke is never reached: no loop starts and the model is never called.
C4_NoInvokeWithoutValidCredential ==
    groq_api_key # <<"good">> => agentPc = "off" /\ decisions = <<>>

IsToolPair(p) == p.action # ExceptionAction
ToolActions(steps) ==
    LET kept == SelectSeq(steps, IsToolPair)
    IN  [i \in 1..Len(kept) |-> kept[i].action]

RECURSIVE RequestedCalls(_)
RequestedCalls(ds) ==
    IF ds = <<>> THEN <<>>
    ELSE (IF Head(ds).kind = "invoke" THEN Head(ds).calls ELSE <<>>)
             \o RequestedCalls(Tail(ds))

\* C6: when the model returns Finish(answer) the run returns exactly that
\* answer, and the scratchpad holds one (action, observation) pair for each
\* tool call requested before it, in order: none, and no tool run, when
\* Finish is the first decision; exactly one when one Invoke precedes it.
C6_FinishReturnsAnswer ==
    agentPc = "Finished" =>
        LET n == Len(decisions)
        IN  /\ decisions[n].kind = "finish"
            /\ output = decisions[n].answer
            /\ ToolActions(intermediate_steps)
                   = RequestedCalls(SubSeq(decisions, 1, n - 1))
            /\ n = 1 => intermediate_steps = <<>> /\ invocations = <<>>
            /\ (n = 2 /\ decisions[1].kind = "invoke"
                      /\ Len(decisions[1].calls) = 1)
                   => Len(intermediate_steps) = 1

C6_Witness ==
    /\ agentPc = "Finished"
    /\ output = <<"X">>
    /\ Len(decisions) = 3
    /\ decisions[1] = Invoke(<<WikiCall>>)
    /\ decisions[2] = Invoke(<<SaveCallOk>>)
    /\ Len(intermediate_steps) = 2
    /\ intermediate_steps[1].action = WikiCall
    /\ intermediate_steps[2] = Pair(SaveCallOk, <<"Exito", <<"a", DOT, "txt">>>>)

\* C8 (as claimed): an exception raised by a registered tool does not end
\* the run.
C8_ToolExceptionDoesNotEndRun ==
    ~(agentPc = "Raised" /\ exception = "tool")

Unregistered(call) == call.tool \notin {WikiName, SaveName}
Unusable(d) ==
    \/ d.kind = "unparsable"
    \/ d.kind = "invoke" /\ \A i \in 1..Len(d.calls) : Unregistered(d.calls[i])

UnparsableIsFedBack ==
    ( /\ agentPc = "Deciding"
      /\ iterations < max_iterations
      /\ Decide(Len(decisions) + 1).kind = "unparsable"
      /\ decisions' # decisions )
    => /\ agentPc' = "Deciding"
       /\ exception' = "none"
       /\ iterations' = iterations + 1
       /\ intermediate_steps' = Append(intermediate_steps,
              Pair(ExceptionAction, ParseErrorObservation))

UnknownToolIsFedBack ==
    ( /\ agentPc = "Invoking"
      /\ pending # <<>>
      /\ Unregistered(Head(pending))
      /\ pending' # pending )
    => /\ agentPc' \in {"Invoking", "Deciding"}
       /\ exception' = "none"
       /\ files' = files
       /\ intermediate_steps' \o next_step_output'
              = Append(intermediate_steps \o next_step_output,
                       Pair(Head(pending), InvalidToolObservation))
       /\ pending' = <<>> => agentPc' = "Deciding" /\ iterations' = iterations + 1

OnlyUnusable ==
    /\ decisions # <<>>
    /\ \A i \in 1..Len(decisions) : Unusable(decisions[i])

\* C9: a decision the loop cannot act on (an unregistered tool, output that
\* cannot be parsed) does not raise or abort: one corrective observation is
\* appended, the loop is back in Deciding and the pass is counted; a model
\* that only produces such decisions ends at the cap with the fallback answer.
C9_UnusableDecisionIsFedBack ==
    /\ [][UnparsableIsFedBack /\ UnknownToolIsFedBack]_vars
    /\ [](OnlyUnusable /\ LoopEnded
            => /\ agentPc = "Aborted"
               /\ output = Fallback
               /\ Len(decisions) = max_iterations
               /\ Len(intermediate_steps) = max_iterations)

C9_Witness ==
    /\ agentPc = "Aborted"
    /\ output = Fallback
    /\ OnlyUnusable
    /\ decisions[1] = Unparsable
    /\ decisions[2] = Invoke(<<UnknownCall>>)
    /\ intermediate_steps[1].observation = ParseErrorObservation
    /\ intermediate_steps[2].observation = InvalidToolObservation
=============================================================================
